---- MODULE Spec2Model ----
(***************************************************************************)
(* Model of src/blackjack.py: Card, Deck, Hand and BlackjackGame.          *)
(*                                                                         *)
(* A card is modelled by its rank: the suit is read by Card.__str__ only.  *)
(* The shoe (Deck.cards) is the multiset of the cards it still holds, as   *)
(* a count per rank: random.shuffle followed by pop() hands out any card   *)
(* the shoe still holds, so a draw is a choice among the ranks with a      *)
(* positive count.                                                         *)
(*                                                                         *)
(* BlackjackGame.play is one sequential loop; pc is its position, cut at   *)
(* every input() and at every draw of a card.                              *)
(***************************************************************************)
EXTENDS Integers, Sequences, FiniteSets, TLC

VARIABLES
    deck_cards,      \* Deck.cards: rank -> number of cards of that rank left
    deck_num_decks,  \* Deck.num_decks
    player_hand,     \* Hand.cards of the player: a sequence of ranks
    dealer_hand,     \* Hand.cards of the dealer: a sequence of ranks
    player_balance,
    current_bet,
    wins, losses, pushes, blackjacks, busts,
    total_wagered, total_won,
    pc,              \* position in play()
    bust, doubled,   \* locals of play()
    action,          \* local of play(): the last action token read
    multiplier,      \* local of play(): what determine_winner returned
    result,          \* the outcome line printed for the current round, "none" before
    msg,             \* the last rejection line printed, "" when the input was accepted
    stats_shown,     \* display_statistics() has been called
    at_bet,          \* history: the ledger as the current round's bet was read
    rounds_started,  \* history: bets accepted
    cards_drawn,     \* history: cards taken from the shoe
    rounds_resolved  \* history: rounds that reached an outcome

vars == <<deck_cards, deck_num_decks, player_hand, dealer_hand, player_balance, current_bet,
          wins, losses, pushes, blackjacks, busts, total_wagered, total_won,
          pc, bust, doubled, action, multiplier, result, msg, stats_shown,
          at_bet, rounds_started, cards_drawn, rounds_resolved>>

ledger == <<player_balance, current_bet, wins, losses, pushes, blackjacks,
            busts, total_wagered, total_won>>

-----------------------------------------------------------------------------
(* Bounds of the exploration *)

\* cards one session takes from the shoe
MaxDraws == 8

\* cards in a hand handed directly to dealer_play / determine_winner
MaxHandLen == 3

\* decks a shoe is built from, where the shoe is exercised on its own
MaxDecks == 2

\* cards left in the nearly empty shoes a run of draws starts from
MaxLowShoe == 12

\* the ranks the explored shuffles bring to the top of the shoe
TopRanks == {"A", "6", "K"}

\* the ranks of the hands handed directly to dealer_play / determine_winner
HandRanks == {"A", "6", "9", "K"}

\* the action tokens typed at the prompt ("x" stands for any other text)
ActionInputs == {"h", "s", "d", "x"}

-----------------------------------------------------------------------------
(* Card *)

ranks == <<"2", "3", "4", "5", "6", "7", "8", "9", "10", "J", "Q", "K", "A">>

RankSet == {ranks[i] : i \in 1..Len(ranks)}

RankInt == [r \in {"2", "3", "4", "5", "6", "7", "8", "9", "10"} |->
              CASE r = "2" -> 2 [] r = "3" -> 3 [] r = "4" -> 4 [] r = "5" -> 5
                [] r = "6" -> 6 [] r = "7" -> 7 [] r = "8" -> 8 [] r = "9" -> 9
                [] r = "10" -> 10]

\* mutant: an Ace is worth 1
Card_get_value_AceLow(rank) ==
    IF rank \in {"J", "Q", "K"} THEN 10
    ELSE IF rank = "A" THEN 1
    ELSE RankInt[rank]

Card_get_value(rank) ==
    IF rank \in {"J", "Q", "K"} THEN 10
    ELSE IF rank = "A" THEN 11
    ELSE RankInt[rank]

-----------------------------------------------------------------------------
(* Deck *)

num_decks == 6

NumSuits == 4

\* reset(): every rank in every suit, once per deck
Deck_reset(n) == [r \in RankSet |-> NumSuits * n]

RECURSIVE SumCounts(_, _)
SumCounts(cards, rs) ==
    IF rs = {} THEN 0
    ELSE LET r == CHOOSE x \in rs : TRUE
         IN cards[r] + SumCounts(cards, rs \ {r})

\* the cards of the first i ranks
RECURSIVE SumRanks(_, _)
SumRanks(cards, i) ==
    IF i = 0 THEN 0 ELSE cards[ranks[i]] + SumRanks(cards, i - 1)

\* len(self.cards)
Deck_len(cards) == SumRanks(cards, Len(ranks))

ReshuffleBelow == 10

\* mutant: the shoe is rebuilt only once it is empty
Deck_before_pop_WhenEmpty(cards, n) ==
    IF Deck_len(cards) < 1 THEN Deck_reset(n) ELSE cards

\* the shoe a draw pops from: rebuilt first when fewer than 10 cards are left
Deck_before_pop(cards, n) ==
    IF Deck_len(cards) < ReshuffleBelow THEN Deck_reset(n) ELSE cards

\* the ranks draw() may return
Deck_can_draw(cards, n) == {r \in TopRanks : Deck_before_pop(cards, n)[r] > 0}

\* the shoe after draw() returned a card of rank r
Deck_draw(cards, n, r) ==
    LET c == Deck_before_pop(cards, n) IN [c EXCEPT ![r] = c[r] - 1]

-----------------------------------------------------------------------------
(* Hand *)

RECURSIVE SumValues(_)
SumValues(h) ==
    IF h = <<>> THEN 0 ELSE Card_get_value(Head(h)) + SumValues(Tail(h))

CountAces(h) == Cardinality({i \in 1..Len(h) : h[i] = "A"})

\* mutant: at most one Ace is ever counted as 1
AdjustAces_Once(value, aces) ==
    IF value > 21 /\ aces > 0 THEN value - 10 ELSE value

RECURSIVE AdjustAces(_, _)
AdjustAces(value, aces) ==
    IF value > 21 /\ aces > 0 THEN AdjustAces(value - 10, aces - 1) ELSE value

Hand_get_value(h) == AdjustAces(SumValues(h), CountAces(h))

\* mutant: any 21 is a blackjack
Hand_is_blackjack_Any21(h) == Hand_get_value(h) = 21

Hand_is_blackjack(h) == Len(h) = 2 /\ Hand_get_value(h) = 21

-----------------------------------------------------------------------------
(* Numbers: a multiplier is the fraction num/den (2.5 is 5/2) *)

Mult(n, d) == [num |-> n, den |-> d]

NoMultiplier == Mult(0, 1)

\* Python's int(): truncation toward zero of n/d, d > 0
IntTrunc(n, d) == IF n >= 0 THEN n \div d ELSE -((-n) \div d)

\* mutant: the profit alone is paid, the bet is not given back
payout_of_ProfitOnly(bet, m) == IntTrunc(bet * m.num, m.den) - bet

\* int(self.current_bet * multiplier)
payout_of(bet, m) == IntTrunc(bet * m.num, m.den)

\* int(self.current_bet * 2.5)
win_amount_of(bet) == IntTrunc(bet * 5, 2)

-----------------------------------------------------------------------------
(* BlackjackGame *)

StartingBalance == 1000

NoCounters == [wins |-> 0, losses |-> 0, pushes |-> 0, blackjacks |-> 0, busts |-> 0]

Outcome(m, tag, counted) ==
    [multiplier |-> m, result |-> tag,
     inc |-> [c \in DOMAIN NoCounters |-> IF c \in counted THEN 1 ELSE 0]]

\* mutant: the dealer's bust is tested before the player's
determine_winner_DealerFirst(ph, dh) ==
    LET player_value == Hand_get_value(ph)
        dealer_value == Hand_get_value(dh)
    IN  IF dealer_value > 21
          THEN Outcome(Mult(2, 1), "dealer_bust", {"wins"})
        ELSE IF player_value > 21
          THEN Outcome(Mult(-1, 1), "player_bust", {"busts", "losses"})
        ELSE IF Hand_is_blackjack(ph) /\ ~Hand_is_blackjack(dh)
          THEN Outcome(Mult(5, 2), "player_blackjack", {"wins", "blackjacks"})
        ELSE IF Hand_is_blackjack(dh) /\ ~Hand_is_blackjack(ph)
          THEN Outcome(Mult(-1, 1), "dealer_blackjack", {"losses"})
        ELSE IF Hand_is_blackjack(ph) /\ Hand_is_blackjack(dh)
          THEN Outcome(Mult(1, 1), "both_blackjack", {"pushes"})
        ELSE IF player_value > dealer_value
          THEN Outcome(Mult(2, 1), "player_higher", {"wins"})
        ELSE IF dealer_value > player_value
          THEN Outcome(Mult(-1, 1), "dealer_higher", {"losses"})
        ELSE Outcome(Mult(1, 1), "push", {"pushes"})

\* determine_winner: the multiplier, the outcome line and the counters it increments
determine_winner(ph, dh) ==
    LET player_value == Hand_get_value(ph)
        dealer_value == Hand_get_value(dh)
    IN  IF player_value > 21
          THEN Outcome(Mult(-1, 1), "player_bust", {"busts", "losses"})
        ELSE IF dealer_value > 21
          THEN Outcome(Mult(2, 1), "dealer_bust", {"wins"})
        ELSE IF Hand_is_blackjack(ph) /\ ~Hand_is_blackjack(dh)
          THEN Outcome(Mult(5, 2), "player_blackjack", {"wins", "blackjacks"})
        ELSE IF Hand_is_blackjack(dh) /\ ~Hand_is_blackjack(ph)
          THEN Outcome(Mult(-1, 1), "dealer_blackjack", {"losses"})
        ELSE IF Hand_is_blackjack(ph) /\ Hand_is_blackjack(dh)
          THEN Outcome(Mult(1, 1), "both_blackjack", {"pushes"})
        ELSE IF player_value > dealer_value
          THEN Outcome(Mult(2, 1), "player_higher", {"wins"})
        ELSE IF dealer_value > player_value
          THEN Outcome(Mult(-1, 1), "dealer_higher", {"losses"})
        ELSE Outcome(Mult(1, 1), "push", {"pushes"})

\* mutant: the push gives nothing back
push_refund_Forgotten(balance, bet) == balance

\* line 278: self.player_balance += self.current_bet
push_refund(balance, bet) == balance + bet

\* the bets typed at the prompt: rejected ones (0, balance + 1) and accepted ones
BetInputs(balance) == {0, 5, 100, balance, balance + 1}

\* bet <= 0 or bet > self.player_balance
bet_rejected(bet, balance) == bet <= 0 \/ bet > balance

\* while self.player_balance > 0: where the loop goes when its condition is read
LoopHead(balance) == IF balance > 0 THEN "bet" ELSE "done"

\* the ledger as a bet is read, with the bet that is then accepted
Snapshot(bet) ==
    [player_balance |-> player_balance, total_wagered |-> total_wagered,
     total_won |-> total_won, wins |-> wins, losses |-> losses,
     pushes |-> pushes, blackjacks |-> blackjacks, busts |-> busts,
     bet |-> bet]

Init ==
    /\ deck_num_decks = num_decks
    /\ deck_cards = Deck_reset(deck_num_decks)
    /\ player_hand = <<>>
    /\ dealer_hand = <<>>
    /\ player_balance = StartingBalance
    /\ current_bet = 0
    /\ wins = 0 /\ losses = 0 /\ pushes = 0 /\ blackjacks = 0 /\ busts = 0
    /\ total_wagered = 0 /\ total_won = 0
    /\ pc = "bet"
    /\ bust = FALSE /\ doubled = FALSE
    /\ action = ""
    /\ multiplier = NoMultiplier
    /\ result = "none"
    /\ msg = ""
    /\ stats_shown = FALSE
    /\ at_bet = Snapshot(0)
    /\ rounds_started = 0
    /\ cards_drawn = 0
    /\ rounds_resolved = 0

\* lines 254-266: a bet that is refused (out of range, or not a number)
BetRejected ==
    /\ pc = "bet"
    /\ \/ \E bet \in BetInputs(player_balance) :
             /\ bet_rejected(bet, player_balance)
             /\ msg' = "invalid_bet"
       \/ msg' = "not_a_number"
    /\ UNCHANGED <<deck_cards, deck_num_decks, player_hand, dealer_hand, ledger, pc, bust,
                   doubled, action, multiplier, result, stats_shown, at_bet,
                   rounds_started, cards_drawn, rounds_resolved>>

\* lines 257-264: a bet that is accepted
BetAccepted ==
    /\ pc = "bet"
    /\ cards_drawn + 4 <= MaxDraws
    /\ \E bet \in BetInputs(player_balance) :
          /\ ~bet_rejected(bet, player_balance)
          /\ current_bet' = bet
          /\ total_wagered' = total_wagered + bet
          /\ player_balance' = player_balance - bet
    /\ at_bet' = Snapshot(current_bet')
    /\ rounds_started' = rounds_started + 1
    /\ result' = "none"
    /\ msg' = ""
    /\ pc' = "start_round"
    /\ UNCHANGED <<deck_cards, deck_num_decks, player_hand, dealer_hand, wins, losses, pushes,
                   blackjacks, busts, total_won, bust, doubled, action,
                   multiplier, stats_shown, cards_drawn, rounds_resolved>>

\* start_round: player, dealer, player, dealer
StartRound ==
    /\ pc = "start_round"
    /\ \E c1 \in Deck_can_draw(deck_cards, deck_num_decks) :
        LET d1 == Deck_draw(deck_cards, deck_num_decks, c1) IN
        \E c2 \in Deck_can_draw(d1, deck_num_decks) :
        LET d2 == Deck_draw(d1, deck_num_decks, c2) IN
        \E c3 \in Deck_can_draw(d2, deck_num_decks) :
        LET d3 == Deck_draw(d2, deck_num_decks, c3) IN
        \E c4 \in Deck_can_draw(d3, deck_num_decks) :
          /\ player_hand' = <<c1, c3>>
          /\ dealer_hand' = <<c2, c4>>
          /\ deck_cards' = Deck_draw(d3, deck_num_decks, c4)
    /\ cards_drawn' = cards_drawn + 4
    /\ deck_num_decks' = deck_num_decks
    /\ pc' = "check_blackjack"
    /\ UNCHANGED <<ledger, bust, doubled, action, multiplier, result, msg,
                   stats_shown, at_bet, rounds_started, rounds_resolved>>

\* lines 273-282: the dealer holds a natural blackjack
DealerBlackjack ==
    /\ pc = "check_blackjack"
    /\ Hand_is_blackjack(dealer_hand)
    /\ IF Hand_is_blackjack(player_hand)
         THEN /\ result' = "both_blackjack"
              /\ pushes' = pushes + 1
              /\ player_balance' = push_refund(player_balance, current_bet)
              /\ UNCHANGED losses
         ELSE /\ result' = "dealer_blackjack"
              /\ losses' = losses + 1
              /\ UNCHANGED <<pushes, player_balance>>
    /\ rounds_resolved' = rounds_resolved + 1
    /\ pc' = LoopHead(player_balance')
    /\ UNCHANGED <<deck_cards, deck_num_decks, player_hand, dealer_hand, current_bet, wins,
                   blackjacks, busts, total_wagered, total_won, bust, doubled,
                   action, multiplier, msg, stats_shown, at_bet, rounds_started, cards_drawn>>

\* lines 285-293: the player holds a natural blackjack, the dealer does not
PlayerBlackjack ==
    /\ pc = "check_blackjack"
    /\ ~Hand_is_blackjack(dealer_hand)
    /\ Hand_is_blackjack(player_hand)
    /\ LET win_amount == win_amount_of(current_bet) IN
          /\ total_won' = total_won + win_amount
          /\ player_balance' = player_balance + win_amount
    /\ wins' = wins + 1
    /\ blackjacks' = blackjacks + 1
    /\ result' = "player_blackjack"
    /\ rounds_resolved' = rounds_resolved + 1
    /\ pc' = LoopHead(player_balance')
    /\ UNCHANGED <<deck_cards, deck_num_decks, player_hand, dealer_hand, current_bet, losses,
                   pushes, busts, total_wagered, bust, doubled, action,
                   multiplier, msg, stats_shown, at_bet, rounds_started, cards_drawn>>

\* lines 296-297: no natural, the player's turn begins
BeginPlayerTurn ==
    /\ pc = "check_blackjack"
    /\ ~Hand_is_blackjack(dealer_hand)
    /\ ~Hand_is_blackjack(player_hand)
    /\ bust' = FALSE
    /\ doubled' = FALSE
    /\ pc' = "player_turn"
    /\ UNCHANGED <<deck_cards, deck_num_decks, player_hand, dealer_hand, ledger, action,
                   multiplier, result, msg, stats_shown, at_bet,
                   rounds_started, cards_drawn, rounds_resolved>>

\* mutant: the size of the hand is not looked at
double_offered_AnyHand(hand, dbl) == ~dbl

\* line 313: the double-down key is honoured
double_offered(hand, dbl) == Len(hand) = 2 /\ ~dbl

\* mutant: the balance is not looked at
double_refused_Never(bet, balance) == FALSE

\* line 315: if self.current_bet > self.player_balance
double_refused(bet, balance) == bet > balance

\* mutant: the whole doubled bet is counted as wagered
double_wagered_Whole(doubled_bet) == doubled_bet

\* line 320: self.total_wagered += self.current_bet // 2, read after the bet doubled
double_wagered(doubled_bet) == doubled_bet \div 2

\* lines 304-310: 'h'
HitCard ==
    /\ pc = "player_turn"
    /\ cards_drawn' = cards_drawn + 1
    /\ deck_num_decks' = deck_num_decks
    /\ action' = "h"
    /\ msg' = ""
    /\ \E c \in Deck_can_draw(deck_cards, deck_num_decks) :
          /\ deck_cards' = Deck_draw(deck_cards, deck_num_decks, c)
          /\ player_hand' = Append(player_hand, c)
    /\ IF Hand_get_value(player_hand') <= 21
         THEN UNCHANGED <<bust, pc, result, rounds_resolved>>
         ELSE /\ bust' = TRUE
              /\ result' = "you_busted"
              /\ rounds_resolved' = rounds_resolved + 1
              /\ pc' = "round_end"
    /\ UNCHANGED <<dealer_hand, ledger, doubled, multiplier, stats_shown,
                   at_bet, rounds_started>>

\* 'h' while the session's card budget lasts
Hit == cards_drawn < MaxDraws /\ HitCard

\* lines 311-312: 's'
Stand ==
    /\ pc = "player_turn"
    /\ action' = "s"
    /\ msg' = ""
    /\ pc' = "dealer_play"
    /\ UNCHANGED <<deck_cards, deck_num_decks, player_hand, dealer_hand, ledger, bust, doubled,
                   multiplier, result, stats_shown, at_bet, rounds_started, cards_drawn,
                   rounds_resolved>>

\* lines 313-317: 'd' with too small a balance
DoubleRefused ==
    /\ pc = "player_turn"
    /\ double_offered(player_hand, doubled)
    /\ double_refused(current_bet, player_balance)
    /\ action' = "d"
    /\ msg' = "not_enough_balance"
    /\ UNCHANGED <<deck_cards, deck_num_decks, player_hand, dealer_hand, ledger, pc, bust,
                   doubled, multiplier, result, stats_shown, at_bet,
                   rounds_started, cards_drawn, rounds_resolved>>

\* lines 313-329: 'd', the bet doubles and one card is drawn
DoubleDownCard ==
    /\ pc = "player_turn"
    /\ double_offered(player_hand, doubled)
    /\ ~double_refused(current_bet, player_balance)
    /\ cards_drawn' = cards_drawn + 1
    /\ deck_num_decks' = deck_num_decks
    /\ action' = "d"
    /\ msg' = ""
    /\ player_balance' = player_balance - current_bet
    /\ current_bet' = current_bet * 2
    /\ total_wagered' = total_wagered + double_wagered(current_bet')
    /\ doubled' = TRUE
    /\ \E c \in Deck_can_draw(deck_cards, deck_num_decks) :
          /\ deck_cards' = Deck_draw(deck_cards, deck_num_decks, c)
          /\ player_hand' = Append(player_hand, c)
    /\ IF Hand_get_value(player_hand') <= 21
         THEN /\ pc' = "dealer_play"
              /\ UNCHANGED <<bust, result, rounds_resolved>>
         ELSE /\ bust' = TRUE
              /\ result' = "you_busted"
              /\ rounds_resolved' = rounds_resolved + 1
              /\ pc' = "round_end"
    /\ UNCHANGED <<dealer_hand, wins, losses, pushes, blackjacks, busts,
                   total_won, multiplier, stats_shown, at_bet, rounds_started>>

\* an accepted 'd' while the session's card budget lasts
DoubleDown == cards_drawn < MaxDraws /\ DoubleDownCard

\* lines 330-331: any other text, and 'd' when it is not offered
OtherAction ==
    /\ pc = "player_turn"
    /\ \E a \in ActionInputs \ {"h", "s"} :
          /\ a = "d" => ~double_offered(player_hand, doubled)
          /\ action' = a
    /\ msg' = "enter_h_s_d"
    /\ UNCHANGED <<deck_cards, deck_num_decks, player_hand, dealer_hand, ledger, pc, bust,
                   doubled, multiplier, result, stats_shown, at_bet,
                   rounds_started, cards_drawn, rounds_resolved>>

\* mutant: the dealer never stops drawing
dealer_must_draw_Always(hand) == TRUE

\* mutant: the dealer also draws on 17
dealer_must_draw_On17(hand) == Hand_get_value(hand) <= 17

\* line 115: while self.dealer_hand.get_value() < 17
dealer_must_draw(hand) == Hand_get_value(hand) < 17

\* lines 115-116: one turn of dealer_play's loop
DealerDrawCard ==
    /\ pc = "dealer_play"
    /\ dealer_must_draw(dealer_hand)
    /\ cards_drawn' = cards_drawn + 1
    /\ deck_num_decks' = deck_num_decks
    /\ \E c \in Deck_can_draw(deck_cards, deck_num_decks) :
          /\ deck_cards' = Deck_draw(deck_cards, deck_num_decks, c)
          /\ dealer_hand' = Append(dealer_hand, c)
    /\ UNCHANGED <<player_hand, ledger, pc, bust, doubled, action, multiplier,
                   result, msg, stats_shown, at_bet, rounds_started,
                   rounds_resolved>>

\* one turn of dealer_play's loop while the session's card budget lasts
DealerDraw == cards_drawn < MaxDraws /\ DealerDrawCard

\* line 115: the loop of dealer_play ends
DealerStand ==
    /\ pc = "dealer_play"
    /\ ~dealer_must_draw(dealer_hand)
    /\ pc' = "resolve"
    /\ UNCHANGED <<deck_cards, deck_num_decks, player_hand, dealer_hand, ledger, bust, doubled,
                   action, multiplier, result, msg, stats_shown, at_bet,
                   rounds_started, cards_drawn, rounds_resolved>>

\* line 341: if multiplier > 0
counts_as_won(m) == m.num > 0

\* lines 337-342: determine_winner and the payout
Resolve ==
    /\ pc = "resolve"
    /\ LET o == determine_winner(player_hand, dealer_hand)
           payout == payout_of(current_bet, o.multiplier)
       IN  /\ multiplier' = o.multiplier
           /\ result' = o.result
           /\ wins' = wins + o.inc.wins
           /\ losses' = losses + o.inc.losses
           /\ pushes' = pushes + o.inc.pushes
           /\ blackjacks' = blackjacks + o.inc.blackjacks
           /\ busts' = busts + o.inc.busts
           /\ player_balance' = player_balance + payout
           /\ total_won' = IF counts_as_won(o.multiplier)
                             THEN total_won + payout ELSE total_won
    /\ rounds_resolved' = rounds_resolved + 1
    /\ pc' = "round_end"
    /\ UNCHANGED <<deck_cards, deck_num_decks, player_hand, dealer_hand, current_bet,
                   total_wagered, bust, doubled, action, msg, stats_shown,
                   at_bet, rounds_started, cards_drawn>>

\* lines 345-347: out of chips; the loop condition then ends the session
GameOver ==
    /\ pc = "round_end"
    /\ player_balance <= 0
    /\ stats_shown' = TRUE
    /\ pc' = LoopHead(player_balance)
    /\ UNCHANGED <<deck_cards, deck_num_decks, player_hand, dealer_hand, ledger, bust, doubled,
                   action, multiplier, result, msg, at_bet, rounds_started, cards_drawn,
                   rounds_resolved>>

\* lines 349-350: "Play another round?" answered 'y'
PlayAgain ==
    /\ pc = "round_end"
    /\ player_balance > 0
    /\ pc' = LoopHead(player_balance)
    /\ UNCHANGED <<deck_cards, deck_num_decks, player_hand, dealer_hand, ledger, bust, doubled,
                   action, multiplier, result, msg, stats_shown, at_bet,
                   rounds_started, cards_drawn, rounds_resolved>>

\* lines 349-352: "Play another round?" answered anything else
Quit ==
    /\ pc = "round_end"
    /\ player_balance > 0
    /\ stats_shown' = TRUE
    /\ pc' = "done"
    /\ UNCHANGED <<deck_cards, deck_num_decks, player_hand, dealer_hand, ledger, bust, doubled,
                   action, multiplier, result, msg, at_bet, rounds_started, cards_drawn,
                   rounds_resolved>>

Next ==
    \/ BetRejected
    \/ BetAccepted
    \/ StartRound
    \/ DealerBlackjack
    \/ PlayerBlackjack
    \/ BeginPlayerTurn
    \/ Hit
    \/ Stand
    \/ DoubleRefused
    \/ DoubleDown
    \/ OtherAction
    \/ DealerDraw
    \/ DealerStand
    \/ Resolve
    \/ GameOver
    \/ PlayAgain
    \/ Quit

\* a session of play()
Spec == Init /\ [][Next]_vars

-----------------------------------------------------------------------------
(* dealer_play and determine_winner called on hands of any shape: on entry   *)
(* to dealer_play, or with the dealer's hand taken as it is (determine_winner *)
(* alone).                                                                    *)

Hands == UNION {[1..n -> HandRanks] : n \in 2..MaxHandLen}

InitHands ==
    /\ deck_num_decks = num_decks
    /\ deck_cards = Deck_reset(deck_num_decks)
    /\ player_hand \in Hands
    /\ dealer_hand \in Hands
    /\ current_bet \in {5, 100}
    /\ player_balance = StartingBalance - current_bet
    /\ total_wagered = current_bet
    /\ wins = 0 /\ losses = 0 /\ pushes = 0 /\ blackjacks = 0 /\ busts = 0
    /\ total_won = 0
    /\ pc \in {"dealer_play", "resolve"}
    /\ bust = FALSE /\ doubled = FALSE
    /\ action = "s"
    /\ multiplier = NoMultiplier
    /\ result = "none"
    /\ msg = ""
    /\ stats_shown = FALSE
    /\ at_bet = [player_balance |-> StartingBalance, total_wagered |-> 0,
                 total_won |-> 0, wins |-> 0, losses |-> 0, pushes |-> 0,
                 blackjacks |-> 0, busts |-> 0, bet |-> current_bet]
    /\ rounds_started = 1
    /\ cards_drawn = 0
    /\ rounds_resolved = 0

NextHands == DealerDraw \/ DealerStand \/ Resolve

SpecHands == InitHands /\ [][NextHands]_vars

-----------------------------------------------------------------------------
(* Hand.get_value and Hand.is_blackjack as dealer_play and determine_winner  *)
(* call them, on a dealer's hand of any ranks against a player's K+9.        *)

AllHands == UNION {[1..n -> RankSet] : n \in 2..MaxHandLen}

InitValue ==
    /\ deck_num_decks = num_decks
    /\ deck_cards = Deck_reset(deck_num_decks)
    /\ player_hand = <<"K", "9">>
    /\ dealer_hand \in AllHands
    /\ current_bet = 100
    /\ player_balance = StartingBalance - current_bet
    /\ total_wagered = current_bet
    /\ wins = 0 /\ losses = 0 /\ pushes = 0 /\ blackjacks = 0 /\ busts = 0
    /\ total_won = 0
    /\ pc \in {"dealer_play", "resolve"}
    /\ bust = FALSE /\ doubled = FALSE
    /\ action = "s"
    /\ multiplier = NoMultiplier
    /\ result = "none"
    /\ msg = ""
    /\ stats_shown = FALSE
    /\ at_bet = [player_balance |-> StartingBalance, total_wagered |-> 0,
                 total_won |-> 0, wins |-> 0, losses |-> 0, pushes |-> 0,
                 blackjacks |-> 0, busts |-> 0, bet |-> current_bet]
    /\ rounds_started = 1
    /\ cards_drawn = 0
    /\ rounds_resolved = 0

SpecValue == InitValue /\ [][NextHands]_vars

-----------------------------------------------------------------------------
(* Deck.draw called again and again on a shoe of 1..MaxDecks decks: a fresh  *)
(* shoe, or a shoe that earlier draws left nearly empty.                     *)

Min(a, b) == IF a <= b THEN a ELSE b

\* shoes of n decks holding 9..MaxLowShoe cards, all of them of the top ranks
LowShoes(n) ==
    {[r \in RankSet |-> IF r \in TopRanks THEN f[r] ELSE 0] :
        f \in {g \in [TopRanks -> 0..Min(NumSuits * n, MaxLowShoe)] :
                  LET left == SumCounts(g, TopRanks)
                  IN  left >= ReshuffleBelow - 1 /\ left <= MaxLowShoe}}

InitDeck ==
    /\ deck_num_decks \in 1..MaxDecks
    /\ deck_cards \in {Deck_reset(deck_num_decks)} \cup LowShoes(deck_num_decks)
    /\ player_hand = <<>>
    /\ dealer_hand = <<>>
    /\ player_balance = StartingBalance
    /\ current_bet = 0
    /\ wins = 0 /\ losses = 0 /\ pushes = 0 /\ blackjacks = 0 /\ busts = 0
    /\ total_wagered = 0 /\ total_won = 0
    /\ pc = "draw"
    /\ bust = FALSE /\ doubled = FALSE
    /\ action = ""
    /\ multiplier = NoMultiplier
    /\ result = "none"
    /\ msg = ""
    /\ stats_shown = FALSE
    /\ at_bet = Snapshot(0)
    /\ rounds_started = 0
    /\ cards_drawn = 0
    /\ rounds_resolved = 0

\* Deck.draw
DeckDraw ==
    /\ pc = "draw"
    /\ cards_drawn < MaxDraws
    /\ cards_drawn' = cards_drawn + 1
    /\ deck_num_decks' = deck_num_decks
    /\ \E c \in Deck_can_draw(deck_cards, deck_num_decks) :
          deck_cards' = Deck_draw(deck_cards, deck_num_decks, c)
    /\ UNCHANGED <<player_hand, dealer_hand, ledger, pc, bust, doubled, action,
                   multiplier, result, msg, stats_shown, at_bet, rounds_started,
                   rounds_resolved>>

NextDeck == DeckDraw

SpecDeck == InitDeck /\ [][NextDeck]_vars

-----------------------------------------------------------------------------
(* One round of play() from the accepted bet to its resolution, with no      *)
(* limit on the cards it takes: the first round of a session, with a bet     *)
(* that leaves enough to double or a bet of the whole balance.               *)

RoundBets == {100, StartingBalance}

InitRound ==
    /\ deck_num_decks = num_decks
    /\ deck_cards = Deck_reset(deck_num_decks)
    /\ player_hand = <<>>
    /\ dealer_hand = <<>>
    /\ current_bet \in RoundBets
    /\ player_balance = StartingBalance - current_bet
    /\ total_wagered = current_bet
    /\ wins = 0 /\ losses = 0 /\ pushes = 0 /\ blackjacks = 0 /\ busts = 0
    /\ total_won = 0
    /\ pc = "start_round"
    /\ bust = FALSE /\ doubled = FALSE
    /\ action = ""
    /\ multiplier = NoMultiplier
    /\ result = "none"
    /\ msg = ""
    /\ stats_shown = FALSE
    /\ at_bet = [player_balance |-> StartingBalance, total_wagered |-> 0,
                 total_won |-> 0, wins |-> 0, losses |-> 0, pushes |-> 0,
                 blackjacks |-> 0, busts |-> 0, bet |-> current_bet]
    /\ rounds_started = 1
    /\ cards_drawn = 0
    /\ rounds_resolved = 0

\* the steps play() takes by itself
ProgramStep ==
    \/ StartRound
    \/ DealerBlackjack
    \/ PlayerBlackjack
    \/ BeginPlayerTurn
    \/ DealerDrawCard
    \/ DealerStand
    \/ Resolve

\* the tokens the prompt of lines 299-302 accepts as an action
ValidAction ==
    \/ HitCard
    \/ Stand
    \/ DoubleDownCard

NextRound ==
    \/ ProgramStep
    \/ ValidAction
    \/ DoubleRefused
    \/ OtherAction

\* play() runs on, and the player keeps supplying valid action tokens
FairRound == WF_vars(ProgramStep) /\ WF_vars(ValidAction)

SpecRound == InitRound /\ [][NextRound]_vars /\ FairRound

-----------------------------------------------------------------------------
(* Vocabulary of the properties *)

TenValued == {"10", "J", "Q", "K"}

\* a natural: two cards, an Ace and a ten-valued card
Natural(h) ==
    /\ Len(h) = 2
    /\ \/ h[1] = "A" /\ h[2] \in TenValued
       \/ h[2] = "A" /\ h[1] \in TenValued

\* the total with every Ace counted as 1
HardTotal(h) == SumValues(h) - 10 * CountAces(h)

LossResults == {"you_busted", "player_bust", "dealer_blackjack", "dealer_higher"}

PlainWinResults == {"dealer_bust", "player_higher"}

PushResults == {"both_blackjack", "push"}

\* the bet is placed and the round has no outcome yet
InRound == pc \in {"start_round", "check_blackjack", "player_turn", "dealer_play", "resolve"}

\* what the round's bets took from the balance the round began with
StakedBalance == at_bet.player_balance - current_bet

ShoeAndHands == <<deck_cards, player_hand, dealer_hand>>

Counters == <<wins, losses, pushes, blackjacks, busts>>

-----------------------------------------------------------------------------
(* C1 *)

\* C1: a round that resolves as a player loss (bust by hit or double-down,
\* dealer natural, dealer value higher) leaves the balance at its value before
\* the bet minus the final current_bet: nothing more is taken at resolution.
C1_LossCostsTheBet ==
    result \in LossResults => player_balance = StakedBalance

-----------------------------------------------------------------------------
(* C2 *)

\* C2: while a round is open the balance is the pre-bet balance minus
\* current_bet; a plain win (dealer bust, player higher) adds exactly
\* 2 x current_bet to it and a push (both natural, or equal values after the
\* dealer played) adds exactly 1 x current_bet, so a push restores the pre-bet
\* balance.
C2_WinAndPushPayout ==
    /\ InRound => player_balance = StakedBalance
    /\ result \in PlainWinResults =>
          player_balance = StakedBalance + 2 * current_bet
    /\ result \in PushResults =>
          /\ player_balance = StakedBalance + current_bet
          /\ player_balance = at_bet.player_balance

\* a session with one push and then one plain win, paid 2 x the bet
C2_Witness ==
    /\ result = "player_higher"
    /\ pushes = 1
    /\ wins = 1
    /\ player_balance = at_bet.player_balance + current_bet

-----------------------------------------------------------------------------
(* C3 *)

\* C3: for every accepted bet b, a player natural-blackjack win adds exactly
\* 2.5 x b to the balance and the same amount to total_won (stated doubled:
\* twice the amount added is 5 x b).
C3_BlackjackPaysFiveHalves ==
    result = "player_blackjack" =>
        /\ 2 * (player_balance - StakedBalance) = 5 * current_bet
        /\ 2 * (total_won - at_bet.total_won) = 5 * current_bet

-----------------------------------------------------------------------------
(* C4 *)

\* C4: every resolved round increments exactly one of wins, losses, pushes by
\* one: wins + losses + pushes is the number of rounds resolved so far.
C4_OneCounterPerRound ==
    wins + losses + pushes = rounds_resolved

-----------------------------------------------------------------------------
(* C5 *)

\* the multiplier of the first matching rule, each rule with the negation of
\* the rules before it
FirstMatchingRule(ph, dh) ==
    LET pv == Hand_get_value(ph)
        dv == Hand_get_value(dh)
    IN  CASE pv > 21 -> Mult(-1, 1)
          [] pv <= 21 /\ dv > 21 -> Mult(2, 1)
          [] pv <= 21 /\ dv <= 21 /\ Natural(ph) /\ ~Natural(dh) -> Mult(5, 2)
          [] pv <= 21 /\ dv <= 21 /\ Natural(dh) /\ ~Natural(ph) -> Mult(-1, 1)
          [] pv <= 21 /\ dv <= 21 /\ Natural(ph) /\ Natural(dh) -> Mult(1, 1)
          [] pv <= 21 /\ dv <= 21 /\ ~Natural(ph) /\ ~Natural(dh) /\ pv > dv -> Mult(2, 1)
          [] pv <= 21 /\ dv <= 21 /\ ~Natural(ph) /\ ~Natural(dh) /\ dv > pv -> Mult(-1, 1)
          [] pv <= 21 /\ dv <= 21 /\ ~Natural(ph) /\ ~Natural(dh) /\ dv = pv -> Mult(1, 1)

\* C5: determine_winner returns the multiplier of the first matching rule of
\* (1) player over 21: -1, (2) dealer over 21: 2, (3) player natural only: 2.5,
\* (4) dealer natural only: -1, (5) both natural: 1, (6) higher value 2 / -1,
\* equal 1. Player 22 against dealer 26 loses, a three-card 21 loses to a
\* dealer natural, and the multiplier is never 0.
C5_FirstMatchingRule ==
    pc = "round_end" =>
        /\ multiplier = FirstMatchingRule(player_hand, dealer_hand)
        /\ multiplier.num # 0
        /\ (Hand_get_value(player_hand) = 22 /\ Hand_get_value(dealer_hand) = 26)
              => (multiplier = Mult(-1, 1) /\ result = "player_bust")
        /\ (Len(player_hand) = 3 /\ Hand_get_value(player_hand) = 21
                /\ Natural(dealer_hand))
              => multiplier = Mult(-1, 1)

\* determine_winner has judged player 6+6+K = 22 against dealer K+6+K = 26
C5_Witness ==
    /\ pc = "round_end"
    /\ player_hand = <<"6", "6", "K">>
    /\ dealer_hand = <<"K", "6", "K">>
    /\ result = "player_bust"
    /\ multiplier = Mult(-1, 1)

-----------------------------------------------------------------------------
(* C6, C7 *)

\* the double-down key is typed in this step
DoubleTyped == pc = "player_turn" /\ action' = "d"

\* two cards, no double yet this round, a balance that covers the original bet
DoubleLegal ==
    Len(player_hand) = 2 /\ ~doubled /\ current_bet <= player_balance

\* C6: a legal double-down takes exactly the original bet b from the balance,
\* sets current_bet to 2b, adds exactly b to total_wagered and gives the
\* player exactly one card, from the shoe; the dealer's hand and the counters
\* are left alone.
C6_LegalDoubleDown ==
    [][(DoubleTyped /\ DoubleLegal) =>
          /\ player_balance' = player_balance - current_bet
          /\ current_bet' = 2 * current_bet
          /\ total_wagered' = total_wagered + current_bet
          /\ Len(player_hand') = 3
          /\ SubSeq(player_hand', 1, 2) = player_hand
          /\ Deck_len(deck_cards') = Deck_len(deck_cards) - 1
          /\ dealer_hand' = dealer_hand
          /\ doubled'
          /\ UNCHANGED <<Counters, total_won>>]_vars

\* balance 1000, bet 100, double: balance 800, current_bet 200, wagered 200
C6_Witness ==
    /\ doubled
    /\ action = "d"
    /\ at_bet.player_balance = 1000
    /\ player_balance = 800
    /\ current_bet = 200
    /\ total_wagered = 200
    /\ Len(player_hand) = 3

\* C7: a double-down request that is not legal (hand size not 2, already
\* doubled, or current_bet > balance) changes nothing: balance, current_bet,
\* total_wagered, total_won, the counters, both hands and the shoe stay as
\* they are, and the player is asked for an action again.
C7_IllegalDoubleRejected ==
    [][(DoubleTyped /\ ~DoubleLegal) =>
          /\ UNCHANGED <<ledger, ShoeAndHands, bust, doubled, result>>
          /\ pc' = "player_turn"]_vars

\* a double-down was refused for want of balance, and the prompt is back
C7_Witness ==
    /\ pc = "player_turn"
    /\ action = "d"
    /\ msg = "not_enough_balance"
    /\ current_bet > player_balance
    /\ Len(player_hand) = 2

-----------------------------------------------------------------------------
(* C8, C9 *)

\* the first two cards of the dealer
DealtToDealer == SubSeq(dealer_hand, 1, 2)

\* the first two cards of the player
DealtToPlayer == SubSeq(player_hand, 1, 2)

\* C8: when the deal gives the dealer a natural the round resolves in the next
\* step: no action is asked (the player's turn is never entered with a dealer
\* natural), no hand gets a card, and the result is a push (bet back, pushes
\* + 1) if the player holds a natural too, else a dealer win (losses + 1,
\* balance left at the pre-bet balance minus the bet).
C8_DealerNatural ==
    /\ [](pc \in {"player_turn", "dealer_play", "resolve"} => ~Natural(DealtToDealer))
    /\ [][(pc = "check_blackjack" /\ Natural(dealer_hand)) =>
             /\ pc' \in {"bet", "done"}
             /\ UNCHANGED <<ShoeAndHands, current_bet, wins, blackjacks, busts,
                            total_wagered, total_won>>
             /\ rounds_resolved' = rounds_resolved + 1
             /\ IF Natural(player_hand)
                  THEN /\ result' = "both_blackjack"
                       /\ pushes' = pushes + 1
                       /\ losses' = losses
                       /\ player_balance' = at_bet.player_balance
                  ELSE /\ result' = "dealer_blackjack"
                       /\ losses' = losses + 1
                       /\ pushes' = pushes
                       /\ player_balance' = player_balance
                       /\ player_balance' = at_bet.player_balance - current_bet]_vars

\* both hands were naturals and the bet came back
C8_Witness ==
    /\ result = "both_blackjack"
    /\ Natural(player_hand) /\ Natural(dealer_hand)
    /\ pushes = 1
    /\ player_balance = at_bet.player_balance

\* C9: when the deal gives the player a natural and the dealer none the round
\* resolves in the next step as a blackjack win: no action is asked (the
\* player's turn is never entered with a player natural), the dealer's hand
\* stays at its 2 cards, and wins and blackjacks each grow by exactly 1.
C9_PlayerNatural ==
    /\ [](pc \in {"player_turn", "dealer_play", "resolve"} => ~Natural(DealtToPlayer))
    /\ [][(pc = "check_blackjack" /\ Natural(player_hand) /\ ~Natural(dealer_hand)) =>
             /\ result' = "player_blackjack"
             /\ pc' \in {"bet", "done"}
             /\ UNCHANGED <<ShoeAndHands, current_bet, losses, pushes, busts,
                            total_wagered>>
             /\ Len(dealer_hand') = 2
             /\ wins' = wins + 1
             /\ blackjacks' = blackjacks + 1
             /\ rounds_resolved' = rounds_resolved + 1]_vars

\* a player natural against K+6 has been paid as a blackjack
C9_Witness ==
    /\ result = "player_blackjack"
    /\ Natural(player_hand)
    /\ dealer_hand = <<"K", "6">>
    /\ wins = 1
    /\ blackjacks = 1

-----------------------------------------------------------------------------
(* C10 *)

\* C10: dealer_play draws exactly while the dealer's value is below 17: at 17
\* or more (soft 17 included) the only step is to leave the loop with the hand
\* as it is; a draw happens only below 17, adds one card and raises the
\* all-Aces-as-1 total, which a drawing dealer has at 16 or less, so the draws
\* are finitely many; and the loop is left with a value from 17 to 26.
C10_DealerPlay ==
    /\ [](pc = "dealer_play" /\ Hand_get_value(dealer_hand) < 17
             => HardTotal(dealer_hand) <= 16)
    /\ [](pc \in {"resolve", "round_end"} /\ ~bust
             => /\ Hand_get_value(dealer_hand) >= 17
                /\ Hand_get_value(dealer_hand) <= 26)
    /\ [][(pc = "dealer_play" /\ Hand_get_value(dealer_hand) >= 17) =>
             (dealer_hand' = dealer_hand /\ deck_cards' = deck_cards /\ pc' = "resolve")]_vars
    /\ [][(pc = "dealer_play" /\ dealer_hand' # dealer_hand) =>
             /\ Hand_get_value(dealer_hand) < 17
             /\ Len(dealer_hand') = Len(dealer_hand) + 1
             /\ SubSeq(dealer_hand', 1, Len(dealer_hand)) = dealer_hand
             /\ HardTotal(dealer_hand') > HardTotal(dealer_hand)
             /\ pc' = "dealer_play"]_vars

\* the dealer drew twice from 6+6 and left the loop above 16
C10_Witness ==
    /\ pc = "resolve"
    /\ Len(dealer_hand) = 4
    /\ DealtToDealer = <<"6", "6">>
    /\ Hand_get_value(dealer_hand) >= 17

-----------------------------------------------------------------------------
(* C11 *)

\* the cards of the shoe draw() pops from, as the claim counts them
SizeBeforePop ==
    IF Deck_len(deck_cards) >= 10 THEN Deck_len(deck_cards)
    ELSE deck_num_decks * 52

\* C11: on a shoe of num_decks >= 1, draw() first rebuilds a shoe of fewer
\* than 10 cards to num_decks x 52 cards, num_decks being the configured one,
\* and then removes exactly one card: the size after the draw is the size
\* before it (num_decks x 52 if that was below 10) minus 1, the shoe popped
\* from is never empty, no count goes negative, and after any draws the size
\* is between 9 and num_decks x 52 - 1.
C11_DrawKeepsTheShoe ==
    /\ [](\A r \in RankSet : deck_cards[r] >= 0 /\ deck_cards[r] <= NumSuits * deck_num_decks)
    /\ [](cards_drawn > 0 =>
            /\ Deck_len(deck_cards) >= 9
            /\ Deck_len(deck_cards) <= deck_num_decks * 52 - 1)
    /\ [][deck_cards' # deck_cards =>
            /\ SizeBeforePop >= 1
            /\ Deck_len(deck_cards') = SizeBeforePop - 1
            /\ deck_num_decks' = deck_num_decks]_vars

\* a draw found 9 cards, rebuilt the shoe of 2 decks and left 103
C11_Witness ==
    /\ pc = "draw"
    /\ cards_drawn >= 2
    /\ deck_num_decks = 2
    /\ Deck_len(deck_cards) = 103

-----------------------------------------------------------------------------
(* C12 *)

\* the totals of a hand, each Ace counted as 1 or as 11
Totals(h) == {HardTotal(h) + 10 * k : k \in 0..CountAces(h)}

\* the largest total not above 21, or the total with every Ace as 1
StandardTotal(h) ==
    LET ok == {t \in Totals(h) : t <= 21}
    IN  IF ok = {} THEN HardTotal(h)
        ELSE CHOOSE t \in ok : \A u \in ok : u <= t

\* C12: Hand.get_value is the standard blackjack total of the hand: the
\* largest total not exceeding 21 obtainable by counting each Ace as 1 or 11,
\* or the total with every Ace as 1 when there is none; A+A+9 is 21 and A+A+A
\* is 13; the Ace loop takes 10 off at most once per Ace.
C12_StandardTotal ==
    /\ \A h \in {player_hand, dealer_hand} :
          /\ Hand_get_value(h) = StandardTotal(h)
          /\ Hand_get_value(h) \in Totals(h)
    /\ Hand_get_value(<<"A", "A", "9">>) = 21
    /\ Hand_get_value(<<"A", "A", "A">>) = 13

\* determine_winner has compared the dealer's A+A+A = 13 with K+9 = 19
C12_Witness ==
    /\ pc = "round_end"
    /\ player_hand = <<"K", "9">>
    /\ dealer_hand = <<"A", "A", "A">>
    /\ Hand_get_value(dealer_hand) = 13
    /\ result = "player_higher"

-----------------------------------------------------------------------------
(* C13 *)

\* C13: is_blackjack is true exactly of the hands of 2 cards worth 21, which
\* are the hands of one Ace and one ten-valued card (10, J, Q, K); a hand of
\* 3 or more cards worth 21, 7+7+7 among them, is never a blackjack.
C13_NaturalOnly ==
    /\ \A h \in {player_hand, dealer_hand} :
          /\ Hand_is_blackjack(h) <=> Natural(h)
          /\ Hand_is_blackjack(h) <=> (Len(h) = 2 /\ StandardTotal(h) = 21)
          /\ Len(h) >= 3 => ~Hand_is_blackjack(h)
    /\ result = "dealer_blackjack" => Natural(dealer_hand)
    /\ \A r \in RankSet :
          LET h == <<r, player_hand[1]>>
          IN  Hand_is_blackjack(h) <=> Natural(h)
    /\ Hand_get_value(<<"7", "7", "7">>) = 21
    /\ ~Hand_is_blackjack(<<"7", "7", "7">>)

\* the dealer's 7+7+7 = 21 was not taken for a blackjack: it won as the
\* higher hand
C13_Witness ==
    /\ pc = "round_end"
    /\ dealer_hand = <<"7", "7", "7">>
    /\ Hand_get_value(dealer_hand) = 21
    /\ ~Hand_is_blackjack(dealer_hand)
    /\ result = "dealer_higher"

-----------------------------------------------------------------------------
(* C14 *)

\* C14: whenever a session of play() has ended, forced by a balance <= 0 or
\* by the player declining another round, the final statistics have been
\* displayed, whichever path resolved the last round.
C14_StatisticsBeforeTheEnd ==
    pc = "done" => stats_shown

-----------------------------------------------------------------------------
(* C15 *)

\* C15: pushes follow one rule for total_won on both paths (the both-natural
\* path before the player's turn and the equal-value path after the dealer's):
\* either no push adds to total_won, or every push adds the bet it gives
\* back. So when a round has just been resolved in a session whose rounds all
\* ended in a push, total_won is 0 or is everything wagered.
C15_OnePushRule ==
    (result # "none" /\ pushes = rounds_resolved) =>
        (total_won = 0 \/ total_won = total_wagered)

-----------------------------------------------------------------------------
(* C16 *)

\* C16: busts grows by exactly 1 in every round in which the player's hand
\* goes over 21 (by a hit or by a double-down) and in no other round.
C16_BustsCounted ==
    /\ result = "you_busted" => busts = at_bet.busts + 1
    /\ (result # "none" /\ Hand_get_value(player_hand) <= 21) => busts = at_bet.busts

-----------------------------------------------------------------------------
(* C17 *)

\* C17: an accepted double-down ends the player's turn at once, bust or not:
\* no further action is asked in the round, the player's hand ends the round
\* with exactly 3 cards, there is at most one double-down per round and
\* current_bet never exceeds twice the bet the round began with.
C17_DoubleEndsTheTurn ==
    /\ [](rounds_started > 0 => current_bet \in {at_bet.bet, 2 * at_bet.bet})
    /\ [](pc = "player_turn" => current_bet = at_bet.bet)
    /\ []((rounds_started > 0 /\ current_bet = 2 * at_bet.bet) =>
             /\ doubled
             /\ Len(player_hand) = 3
             /\ pc # "player_turn")
    /\ [][(pc = "player_turn" /\ current_bet' # current_bet) =>
             /\ current_bet' = 2 * at_bet.bet
             /\ pc' \in {"dealer_play", "round_end"}
             /\ pc' = "round_end" <=> Hand_get_value(player_hand') > 21]_vars

\* a double-down went over 21: the round is over with 3 cards and twice the bet
C17_Witness ==
    /\ pc = "round_end"
    /\ result = "you_busted"
    /\ at_bet.bet = 100
    /\ current_bet = 200
    /\ Len(player_hand) = 3

-----------------------------------------------------------------------------
(* C18 *)

\* C18: after a resolved round the next bet is asked for only once the
\* continue question has been answered 'y': the bet prompt is entered from
\* the end of a round's "Play another round?" and from nowhere else.
C18_AskedBeforeTheNextBet ==
    [][(pc # "bet" /\ pc' = "bet") => pc = "round_end"]_vars

-----------------------------------------------------------------------------
(* C19 *)

\* C19: with every accepted bet in 0 < bet <= balance, player_balance is
\* never below zero.
C19_BalanceNeverNegative ==
    player_balance >= 0

-----------------------------------------------------------------------------
(* C20 *)

\* how far a round is from its resolution: the place in play(), then the
\* room left under the totals that stop the player's and the dealer's draws
Rank ==
    CASE pc = "start_round" -> 400
      [] pc = "check_blackjack" -> 300
      [] pc = "player_turn" -> 200 + (22 - HardTotal(player_hand))
      [] pc = "dealer_play" -> 100 + (27 - HardTotal(dealer_hand))
      [] pc = "resolve" -> 1
      [] OTHER -> 0

\* Resolve has no guard but its place in play(): it can be taken whenever
\* determine_winner and the payout have a value
ResolveDefined ==
    LET o == determine_winner(player_hand, dealer_hand)
    IN  /\ o.result \in LossResults \cup PlainWinResults \cup PushResults
        /\ payout_of(current_bet, o.multiplier) \in Int

\* C20: every round that is started is eventually resolved when the player
\* keeps supplying valid action tokens. A card is given to a hand only when
\* its total with every Ace as 1 is at most 21 (player) or below 17 (dealer),
\* and each card raises that total by at least 1. So in an open round a step
\* of play() or a valid token is always possible, each such step brings the
\* round nearer to its resolution by a measure that is positive while the
\* round is open, and a refused token leaves the measure as it is: no round
\* runs forever, whatever the order of the cards in the shoe.
C20_RoundsResolve ==
    /\ [][player_hand' # player_hand /\ player_hand # <<>> =>
            /\ HardTotal(player_hand) <= 21
            /\ HardTotal(player_hand') >= HardTotal(player_hand) + 1]_vars
    /\ [][dealer_hand' # dealer_hand /\ dealer_hand # <<>> =>
            /\ HardTotal(dealer_hand) < 17
            /\ HardTotal(dealer_hand') >= HardTotal(dealer_hand) + 1]_vars
    /\ [](InRound <=> rounds_started > rounds_resolved)
    /\ [](InRound => Rank > 0)
    /\ [](pc = "start_round" => ENABLED <<StartRound>>_vars)
    /\ [](pc = "check_blackjack" =>
             ENABLED <<DealerBlackjack \/ PlayerBlackjack \/ BeginPlayerTurn>>_vars)
    /\ [](pc = "player_turn" => ENABLED <<ValidAction>>_vars)
    /\ [](pc = "dealer_play" => ENABLED <<DealerDrawCard \/ DealerStand>>_vars)
    /\ [](pc = "resolve" => ResolveDefined)
    /\ [][(ProgramStep \/ ValidAction) => Rank' < Rank]_vars
    /\ [][Rank' <= Rank]_vars

\* a player who hit on every prompt went over 21 with the sixth card
C20_Witness ==
    /\ result = "you_busted"
    /\ action = "h"
    /\ ~doubled
    /\ Len(player_hand) = 6
    /\ rounds_started = rounds_resolved

====
